---- MODULE Spec2Model ----
(***************************************************************************)
(* A model of the note-taking application in src/app.py: the notes table,  *)
(* the form normaliser, the query builder and the lifecycle handlers        *)
(* (create, update, pin, archive, trash, restore, purge).                   *)
(*                                                                          *)
(* Text is modelled as a sequence of one-character strings so that         *)
(* trimming, date parsing and date formatting are computed, not assumed.   *)
(*                                                                          *)
(* Spec runs every handler on every form within one second; SpecClock lets *)
(* the clock advance between requests; SpecHist remembers the request      *)
(* before the last one.                                                     *)
(***************************************************************************)
EXTENDS Integers, Sequences, FiniteSets, TLC

VARIABLES
    notes,   \* the notes table: a function from the stored ids to their rows
    seq,     \* sqlite_sequence for the AUTOINCREMENT key: the largest id ever assigned
    clock,   \* CURRENT_TIMESTAMP, in seconds
    purged,  \* history: the ids whose row a purge has removed
    resp,    \* the last request: handler, target id, flags of the row fetched, form, HTTP status, error
    hist,    \* history: the request before the last one (recorded by SpecHist only)
    columns, \* the names of the columns of the notes table; empty when there is no table
    pending  \* the requests in flight between their SELECT and their UPDATE (SpecRace only)

vars == <<notes, seq, clock, purged, resp, hist, columns, pending>>

\* Bounds of the exploration.
MaxId == 2
MaxRows == 2
MaxClock == 1
MaxClockRows == 1
MaxLegacyRows == 2
MaxListRows == 3
MaxPad == 1
MaxNextLen == 4
MaxRequests == 2
MaxRaceRows == 1
MaxRuns == 2

None == <<"None">>

Max(S) == CHOOSE x \in S : \A y \in S : y <= x

----------------------------------------------------------------------------
\* Text

Whitespace == {" ", "\t"}

RECURSIVE lstrip(_)
lstrip(s) ==
    IF s # <<>> /\ Head(s) \in Whitespace THEN lstrip(Tail(s)) ELSE s

RECURSIVE rstrip(_)
rstrip(s) ==
    IF s # <<>> /\ s[Len(s)] \in Whitespace
    THEN rstrip(SubSeq(s, 1, Len(s) - 1))
    ELSE s

strip(s) == rstrip(lstrip(s))

s_todo == <<"t", "o", "d", "o">>
s_in_progress == <<"i", "n", "_", "p", "r", "o", "g", "r", "e", "s", "s">>
s_done == <<"d", "o", "n", "e">>
s_low == <<"l", "o", "w">>
s_medium == <<"m", "e", "d", "i", "u", "m">>
s_high == <<"h", "i", "g", "h">>
s_general == <<"g", "e", "n", "e", "r", "a", "l">>
s_active == <<"a", "c", "t", "i", "v", "e">>
s_archived == <<"a", "r", "c", "h", "i", "v", "e", "d">>
s_trash == <<"t", "r", "a", "s", "h">>
s_all == <<"a", "l", "l">>
s_on == <<"o", "n">>
s_1 == <<"1">>
s_true == <<"t", "r", "u", "e">>

STATUSES == {s_todo, s_in_progress, s_done}
PRIORITIES == {s_low, s_medium, s_high}
VIEWS == {s_active, s_archived, s_trash}

----------------------------------------------------------------------------
\* Dates: datetime.date.fromisoformat and date.isoformat

Digits == {"0", "1", "2", "3", "4", "5", "6", "7", "8", "9"}

DigitVal(c) ==
    CASE c = "0" -> 0 [] c = "1" -> 1 [] c = "2" -> 2 [] c = "3" -> 3
      [] c = "4" -> 4 [] c = "5" -> 5 [] c = "6" -> 6 [] c = "7" -> 7
      [] c = "8" -> 8 [] c = "9" -> 9

DigitChar(n) ==
    CASE n = 0 -> "0" [] n = 1 -> "1" [] n = 2 -> "2" [] n = 3 -> "3"
      [] n = 4 -> "4" [] n = 5 -> "5" [] n = 6 -> "6" [] n = 7 -> "7"
      [] n = 8 -> "8" [] n = 9 -> "9"

AllDigits(s) == \A i \in 1..Len(s) : s[i] \in Digits

RECURSIVE Num(_)
Num(s) == IF s = <<>> THEN 0 ELSE 10 * Num(SubSeq(s, 1, Len(s) - 1)) + DigitVal(s[Len(s)])

IsLeap(y) == (y % 4 = 0) /\ ((y % 100 # 0) \/ (y % 400 = 0))

DaysInMonth(y, m) ==
    IF m = 2 THEN (IF IsLeap(y) THEN 29 ELSE 28)
    ELSE IF m \in {4, 6, 9, 11} THEN 30 ELSE 31

ValueError == [error |-> "ValueError"]

MkDate(y, m, d) ==
    IF y >= 1 /\ y <= 9999 /\ m >= 1 /\ m <= 12 /\ d >= 1 /\ d <= DaysInMonth(y, m)
    THEN [year |-> y, month |-> m, day |-> d]
    ELSE ValueError

\* The calendar formats YYYY-MM-DD and YYYYMMDD (the second since Python 3.11).
fromisoformat(s) ==
    IF Len(s) = 10 /\ s[5] = "-" /\ s[8] = "-"
       /\ AllDigits(SubSeq(s, 1, 4)) /\ AllDigits(SubSeq(s, 6, 7)) /\ AllDigits(SubSeq(s, 9, 10))
    THEN MkDate(Num(SubSeq(s, 1, 4)), Num(SubSeq(s, 6, 7)), Num(SubSeq(s, 9, 10)))
    ELSE IF Len(s) = 8 /\ AllDigits(s)
    THEN MkDate(Num(SubSeq(s, 1, 4)), Num(SubSeq(s, 5, 6)), Num(SubSeq(s, 7, 8)))
    ELSE ValueError

isoformat(d) ==
    << DigitChar(d.year \div 1000), DigitChar((d.year \div 100) % 10),
       DigitChar((d.year \div 10) % 10), DigitChar(d.year % 10), "-",
       DigitChar(d.month \div 10), DigitChar(d.month % 10), "-",
       DigitChar(d.day \div 10), DigitChar(d.day % 10) >>

ErrTitle == <<"Title is required.">>
ErrStatus == <<"Status is invalid.">>
ErrPriority == <<"Priority is invalid.">>
ErrDueDate == <<"Due date must be a valid date in YYYY-MM-DD format.">>

\* A parser that takes any text for a date.
parse_due_date_unchecked(raw_due_date) ==
    IF raw_due_date = <<>> THEN <<None, None>> ELSE <<raw_due_date, None>>

parse_due_date(raw_due_date) ==
    IF raw_due_date = <<>> THEN <<None, None>>
    ELSE IF fromisoformat(raw_due_date) = ValueError THEN <<None, ErrDueDate>>
    ELSE <<isoformat(fromisoformat(raw_due_date)), None>>

----------------------------------------------------------------------------
\* Forms: a submitted form is a function from the keys it carries to text.

FormGet(form, key, default) == IF key \in DOMAIN form THEN form[key] ELSE default

EmptyDict == [k \in {} |-> None]

\* A pin test that also takes "yes".
PinTokens_with_yes == {s_on, s_1, s_true, <<"y", "e", "s">>}

PinTokens == {s_on, s_1, s_true}

\* A normaliser that does not require a title.
normalize_note_form_no_title_check(form) ==
    LET title == strip(FormGet(form, "title", <<>>))
        content == strip(FormGet(form, "content", <<>>))
        stripped_category == strip(FormGet(form, "category", s_general))
        category == IF stripped_category = <<>> THEN s_general ELSE stripped_category
        status == strip(FormGet(form, "status", s_todo))
        priority == strip(FormGet(form, "priority", s_medium))
        due_date_raw == strip(FormGet(form, "due_date", <<>>))
        is_pinned == IF FormGet(form, "is_pinned", None) \in PinTokens THEN 1 ELSE 0
        due == parse_due_date(due_date_raw)
    IN  IF status \notin STATUSES THEN <<EmptyDict, ErrStatus>>
        ELSE IF priority \notin PRIORITIES THEN <<EmptyDict, ErrPriority>>
        ELSE IF due[2] # None THEN <<EmptyDict, due[2]>>
        ELSE << [title |-> title, content |-> content, category |-> category,
                 status |-> status, priority |-> priority, due_date |-> due[1],
                 is_pinned |-> is_pinned], None >>

normalize_note_form(form) ==
    LET title == strip(FormGet(form, "title", <<>>))
        content == strip(FormGet(form, "content", <<>>))
        stripped_category == strip(FormGet(form, "category", s_general))
        category == IF stripped_category = <<>> THEN s_general ELSE stripped_category
        status == strip(FormGet(form, "status", s_todo))
        priority == strip(FormGet(form, "priority", s_medium))
        due_date_raw == strip(FormGet(form, "due_date", <<>>))
        is_pinned == IF FormGet(form, "is_pinned", None) \in PinTokens THEN 1 ELSE 0
        due == parse_due_date(due_date_raw)
    IN  IF title = <<>> THEN <<EmptyDict, ErrTitle>>
        ELSE IF status \notin STATUSES THEN <<EmptyDict, ErrStatus>>
        ELSE IF priority \notin PRIORITIES THEN <<EmptyDict, ErrPriority>>
        ELSE IF due[2] # None THEN <<EmptyDict, due[2]>>
        ELSE << [title |-> title, content |-> content, category |-> category,
                 status |-> status, priority |-> priority, due_date |-> due[1],
                 is_pinned |-> is_pinned], None >>

----------------------------------------------------------------------------
\* Submitted forms

t_dep == <<" ", "D", "e", "p", " ">>
t_dep_bare == <<"D", "e", "p">>
t_a == <<"\t", "A", "%">>
t_blank == <<" ", "\t", " ">>
c_ship == <<"s", "h", "i", "p", " ">>
g_work == <<"w", "o", "r", "k">>
g_work_padded == <<" ", "w", "o", "r", "k">>
g_blank == <<" ", " ">>
st_todo_padded == <<" ", "t", "o", "d", "o", " ">>
st_Done == <<"D", "o", "n", "e">>
pr_medium_padded == <<"m", "e", "d", "i", "u", "m", "\t">>
pr_urgent == <<"u", "r", "g", "e", "n", "t">>
d_2026_03_05 == <<"2", "0", "2", "6", "-", "0", "3", "-", "0", "5">>
d_2026_03_05_compact == <<"2", "0", "2", "6", "0", "3", "0", "5">>
d_2024_02_29_padded == <<" ", "2", "0", "2", "4", "-", "0", "2", "-", "2", "9">>
d_2026_22_99 == <<"2", "0", "2", "6", "-", "2", "2", "-", "9", "9">>
d_2026_02_29 == <<"2", "0", "2", "6", "-", "0", "2", "-", "2", "9">>
d_short == <<"2", "0", "2", "6", "-", "3", "-", "5">>
p_yes == <<"y", "e", "s">>
p_on_padded == <<" ", "o", "n">>

f_deploy ==
    [title |-> t_dep, content |-> c_ship, category |-> g_work, status |-> s_in_progress,
     priority |-> s_high, due_date |-> d_2026_03_05, is_pinned |-> s_on]
f_deploy_unpinned ==
    [title |-> t_dep, content |-> c_ship, category |-> g_work, status |-> s_in_progress,
     priority |-> s_high, due_date |-> d_2026_03_05]
f_deploy_compact ==
    [title |-> t_dep_bare, content |-> c_ship, category |-> g_work_padded,
     status |-> s_in_progress, priority |-> s_high, due_date |-> d_2026_03_05_compact,
     is_pinned |-> s_true]
f_padded ==
    [title |-> t_a, content |-> <<"\t">>, category |-> g_blank, status |-> st_todo_padded,
     priority |-> pr_medium_padded, due_date |-> d_2024_02_29_padded, is_pinned |-> p_yes]
f_defaults == [title |-> t_a, due_date |-> d_2024_02_29_padded, is_pinned |-> p_on_padded]
f_no_title == [status |-> s_done, priority |-> s_low]
f_blank_title == [title |-> t_blank, status |-> st_Done, priority |-> s_low]
f_bad_status == [title |-> t_a, status |-> st_Done, priority |-> pr_urgent]
f_empty_status == [title |-> t_a, status |-> <<>>]
f_bad_priority ==
    [title |-> t_a, status |-> s_todo, priority |-> pr_urgent, due_date |-> d_2026_22_99]
f_bad_month ==
    [title |-> t_a, status |-> s_todo, priority |-> s_low, due_date |-> d_2026_22_99]
f_bad_day == [title |-> t_dep, due_date |-> d_2026_02_29, is_pinned |-> s_1]
f_short_date == [title |-> t_dep, due_date |-> d_short]

\* A form whose category is the word the filters use for "no filter".
f_all == [title |-> t_dep_bare, category |-> s_all]

\* The forms the exploration submits.
Forms ==
    { f_deploy, f_deploy_unpinned, f_deploy_compact, f_padded, f_defaults, f_no_title, f_blank_title,
      f_bad_status, f_empty_status, f_bad_priority, f_bad_month, f_bad_day, f_short_date }

\* normalize_note_form on each submitted form, computed once.
Normalized == [form \in Forms \cup {f_all} |-> normalize_note_form(form)]

\* The forms the exploration with a running clock submits.
ClockForms ==
    {f_deploy, f_deploy_unpinned, f_blank_title, f_bad_status, f_bad_priority, f_bad_month}

\* The forms the exploration with a request history submits.
HistForms == {f_deploy, f_blank_title}

NoteIds == 1..MaxId

----------------------------------------------------------------------------
\* The notes table

NewRow(id, d, now) ==
    [id |-> id, title |-> d.title, content |-> d.content, category |-> d.category,
     status |-> d.status, priority |-> d.priority, due_date |-> d.due_date,
     is_pinned |-> d.is_pinned, is_archived |-> 0, is_deleted |-> 0,
     created_at |-> now, updated_at |-> now]

\* INSERT on an INTEGER PRIMARY KEY AUTOINCREMENT table: the new id is one more
\* than the largest id ever assigned.
\* The key of a table declared without AUTOINCREMENT: one more than the largest stored id.
NextRowid_reuse(table, sequence) == Max({0} \cup DOMAIN table) + 1

NextRowid(table, sequence) == Max({sequence} \cup DOMAIN table) + 1

Insert(table, row) == [i \in DOMAIN table \cup {row.id} |-> IF i = row.id THEN row ELSE table[i]]

Delete(table, id) == [i \in DOMAIN table \ {id} |-> table[i]]

RowCount(table, id) == IF id \in DOMAIN table THEN 1 ELSE 0

NotFound == [abort |-> 404]

get_note_or_404(note_id) ==
    IF note_id \in DOMAIN notes THEN notes[note_id] ELSE NotFound

\* The handlers read only the three flags of the row they fetch.
NoRow == [row |-> "none"]

Flags(note) ==
    IF note \in {NoRow, NotFound} THEN note
    ELSE [is_pinned |-> note.is_pinned, is_archived |-> note.is_archived,
          is_deleted |-> note.is_deleted]

NoForm == [form |-> "none"]

Response(op, id, note, form, status, error) ==
    [op |-> op, id |-> id, note |-> Flags(note), form |-> form, status |-> status,
     error |-> error]

----------------------------------------------------------------------------
\* The schema manager

\* The columns of CREATE TABLE notes.
NotesColumns ==
    {"id", "title", "content", "category", "status", "priority", "due_date",
     "is_pinned", "is_archived", "is_deleted", "created_at", "updated_at"}

\* The columns of the table an older version of the application created.
LegacyColumns == {"id", "title", "content", "created_at", "updated_at"}

NoTable == {}

\* SQL NULL in an INTEGER column (NULL in a TEXT column is None).
NullFlag == -1

\* The ADD COLUMN definitions, in the order of the dictionary: name and default.
additions ==
    << <<"category", s_general>>, <<"status", s_todo>>, <<"priority", s_medium>>,
       <<"due_date", None>>, <<"is_pinned", 0>>, <<"is_archived", 0>>,
       <<"is_deleted", 0>> >>

\* ALTER TABLE notes ADD COLUMN: every stored row gets the column's default.
AddColumn(table, name, default) ==
    [i \in DOMAIN table |->
        [c \in DOMAIN table[i] \cup {name} |-> IF c = name THEN default ELSE table[i][c]]]

\* The loop over additions, from the k-th on.
RECURSIVE AddMissing(_, _, _)
AddMissing(table, existing_columns, k) ==
    IF k > Len(additions) THEN table
    ELSE IF additions[k][1] \notin existing_columns
    THEN AddMissing(AddColumn(table, additions[k][1], additions[k][2]), existing_columns, k + 1)
    ELSE AddMissing(table, existing_columns, k + 1)

\* SQL TRIM(X): removes spaces, and only spaces, from both ends.
RECURSIVE sql_trim(_)
sql_trim(s) ==
    IF s = None \/ s = <<>> THEN s
    ELSE IF Head(s) = " " THEN sql_trim(Tail(s))
    ELSE IF s[Len(s)] = " " THEN sql_trim(SubSeq(s, 1, Len(s) - 1))
    ELSE s

\* The SET clause of the normalising UPDATE, which has no WHERE clause.
schema_update_set(row) ==
    [row EXCEPT
        !.category = IF sql_trim(row.category) \in {None, <<>>}
                     THEN s_general ELSE sql_trim(row.category),
        !.status = IF row.status \in {s_todo, s_in_progress, s_done} THEN row.status ELSE s_todo,
        !.priority = IF row.priority \in {s_low, s_medium, s_high} THEN row.priority ELSE s_medium,
        !.is_pinned = IF row.is_pinned = NullFlag THEN 0 ELSE row.is_pinned,
        !.is_archived = IF row.is_archived = NullFlag THEN 0 ELSE row.is_archived,
        !.is_deleted = IF row.is_deleted = NullFlag THEN 0 ELSE row.is_deleted]

\* A schema manager that rebuilds a table whose columns are not the current ones.
ensure_notes_schema_rebuilds(db) ==
    IF db.columns = NotesColumns
    THEN [columns |-> db.columns,
          rows |-> [i \in DOMAIN db.rows |-> schema_update_set(db.rows[i])]]
    ELSE [columns |-> NotesColumns, rows |-> EmptyDict]

\* db is the database file: the columns of its notes table and the rows stored.
ensure_notes_schema(db) ==
    LET existing_columns == IF db.columns = NoTable THEN NotesColumns ELSE db.columns
        altered == AddMissing(db.rows, existing_columns, 1)
    IN  [columns |-> existing_columns \cup {additions[k][1] : k \in 1..Len(additions)},
         rows |-> [i \in DOMAIN altered |-> schema_update_set(altered[i])]]

----------------------------------------------------------------------------
\* Filters and listings

\* A normaliser that defaults a missing category before it trims it.
load_filters_default_before_strip(args) ==
    LET q == strip(FormGet(args, "q", <<>>))
        status == strip(FormGet(args, "status", s_all))
        priority == strip(FormGet(args, "priority", s_all))
        category == FormGet(args, "category", s_all)
        view == strip(FormGet(args, "view", s_active))
    IN  [q |-> q,
         status |-> IF status \notin ({s_all} \cup STATUSES) THEN s_all ELSE status,
         priority |-> IF priority \notin ({s_all} \cup PRIORITIES) THEN s_all ELSE priority,
         category |-> strip(IF category = <<>> THEN s_all ELSE category),
         view |-> IF view \notin VIEWS THEN s_active ELSE view]

\* A normaliser that takes the view as it comes.
load_filters_view_unchecked(args) ==
    LET q == strip(FormGet(args, "q", <<>>))
        status == strip(FormGet(args, "status", s_all))
        priority == strip(FormGet(args, "priority", s_all))
        stripped_category == strip(FormGet(args, "category", s_all))
        view == strip(FormGet(args, "view", s_active))
    IN  [q |-> q,
         status |-> IF status \notin ({s_all} \cup STATUSES) THEN s_all ELSE status,
         priority |-> IF priority \notin ({s_all} \cup PRIORITIES) THEN s_all ELSE priority,
         category |-> IF stripped_category = <<>> THEN s_all ELSE stripped_category,
         view |-> view]

load_filters(args) ==
    LET q == strip(FormGet(args, "q", <<>>))
        status == strip(FormGet(args, "status", s_all))
        priority == strip(FormGet(args, "priority", s_all))
        stripped_category == strip(FormGet(args, "category", s_all))
        view == strip(FormGet(args, "view", s_active))
    IN  [q |-> q,
         status |-> IF status \notin ({s_all} \cup STATUSES) THEN s_all ELSE status,
         priority |-> IF priority \notin ({s_all} \cup PRIORITIES) THEN s_all ELSE priority,
         category |-> IF stripped_category = <<>> THEN s_all ELSE stripped_category,
         view |-> IF view \notin VIEWS THEN s_active ELSE view]

\* ASCII case folding of SQLite's LIKE, for the letters the model uses.
Lower(c) ==
    CASE c = "A" -> "a" [] c = "D" -> "d" [] c = "B" -> "b" [] c = "W" -> "w" [] OTHER -> c

\* SQLite's LIKE without an ESCAPE clause: % matches any run of characters,
\* _ matches one character, everything else matches itself ignoring ASCII case.
RECURSIVE Like(_, _)
Like(text, pattern) ==
    IF pattern = <<>> THEN text = <<>>
    ELSE IF Head(pattern) = "%"
    THEN Like(text, Tail(pattern)) \/ (text # <<>> /\ Like(Tail(text), pattern))
    ELSE IF Head(pattern) = "_"
    THEN text # <<>> /\ Like(Tail(text), Tail(pattern))
    ELSE text # <<>> /\ Lower(Head(text)) = Lower(Head(pattern))
         /\ Like(Tail(text), Tail(pattern))

\* A WHERE clause that compares the category with LIKE.
build_where_clause_category_like(filters, row) ==
    /\ IF filters.view = s_trash THEN row.is_deleted = 1
       ELSE IF filters.view = s_archived THEN row.is_deleted = 0 /\ row.is_archived = 1
       ELSE row.is_deleted = 0 /\ row.is_archived = 0
    /\ filters.q # <<>> =>
         LET wildcard == <<"%">> \o filters.q \o <<"%">>
         IN  \/ Like(row.title, wildcard)
             \/ Like(row.content, wildcard)
             \/ Like(row.category, wildcard)
    /\ filters.status # s_all => row.status = filters.status
    /\ filters.priority # s_all => row.priority = filters.priority
    /\ filters.category # s_all => Like(row.category, filters.category)

\* The WHERE clause build_where_clause assembles, evaluated on one row.
build_where_clause(filters, row) ==
    /\ IF filters.view = s_trash THEN row.is_deleted = 1
       ELSE IF filters.view = s_archived THEN row.is_deleted = 0 /\ row.is_archived = 1
       ELSE row.is_deleted = 0 /\ row.is_archived = 0
    /\ filters.q # <<>> =>
         LET wildcard == <<"%">> \o filters.q \o <<"%">>
         IN  \/ Like(row.title, wildcard)
             \/ Like(row.content, wildcard)
             \/ Like(row.category, wildcard)
    /\ filters.status # s_all => row.status = filters.status
    /\ filters.priority # s_all => row.priority = filters.priority
    /\ filters.category # s_all => row.category = filters.category

PriorityRank(priority) ==
    IF priority = s_high THEN 0 ELSE IF priority = s_medium THEN 1 ELSE 2

CharCode(c) ==
    CASE c = "-" -> 45 [] c \in Digits -> 48 + DigitVal(c)

\* BINARY collation on text.
RECURSIVE TextLess(_, _)
TextLess(a, b) ==
    IF b = <<>> THEN FALSE
    ELSE IF a = <<>> THEN TRUE
    ELSE IF Head(a) = Head(b) THEN TextLess(Tail(a), Tail(b))
    ELSE CharCode(Head(a)) < CharCode(Head(b))

\* An ORDER BY that sorts by priority before it sorts by the pin.
OrderBefore_priority_first(a, b) ==
    LET nulls(r) == IF r.due_date = None \/ r.due_date = <<>> THEN 1 ELSE 0
    IN  IF PriorityRank(a.priority) # PriorityRank(b.priority)
        THEN PriorityRank(a.priority) < PriorityRank(b.priority)
        ELSE IF a.is_pinned # b.is_pinned THEN a.is_pinned > b.is_pinned
        ELSE IF nulls(a) # nulls(b) THEN nulls(a) < nulls(b)
        ELSE IF nulls(a) = 0 /\ a.due_date # b.due_date THEN TextLess(a.due_date, b.due_date)
        ELSE IF a.updated_at # b.updated_at THEN a.updated_at > b.updated_at
        ELSE a.id > b.id

\* The ORDER BY of fetch_notes: row a is listed before row b.
OrderBefore(a, b) ==
    LET nulls(r) == IF r.due_date = None \/ r.due_date = <<>> THEN 1 ELSE 0
    IN  IF a.is_pinned # b.is_pinned THEN a.is_pinned > b.is_pinned
        ELSE IF PriorityRank(a.priority) # PriorityRank(b.priority)
        THEN PriorityRank(a.priority) < PriorityRank(b.priority)
        ELSE IF nulls(a) # nulls(b) THEN nulls(a) < nulls(b)
        ELSE IF nulls(a) = 0 /\ a.due_date # b.due_date THEN TextLess(a.due_date, b.due_date)
        ELSE IF a.updated_at # b.updated_at THEN a.updated_at > b.updated_at
        ELSE a.id > b.id

RECURSIVE SortRows(_)
SortRows(rows) ==
    IF rows = {} THEN <<>>
    ELSE LET first == CHOOSE r \in rows : \A o \in rows \ {r} : OrderBefore(r, o)
         IN  <<first>> \o SortRows(rows \ {first})

fetch_notes(filters) ==
    SortRows({notes[i] : i \in {j \in DOMAIN notes : build_where_clause(filters, notes[j])}})

\* Counts whose active count forgets the soft-delete marker.
fetch_counts_active_ignores_trash ==
    [active |-> Cardinality({i \in DOMAIN notes : notes[i].is_archived = 0}),
     archived |-> Cardinality({i \in DOMAIN notes : notes[i].is_deleted = 0 /\ notes[i].is_archived = 1}),
     trash |-> Cardinality({i \in DOMAIN notes : notes[i].is_deleted = 1})]

fetch_counts ==
    [active |-> Cardinality({i \in DOMAIN notes : notes[i].is_deleted = 0 /\ notes[i].is_archived = 0}),
     archived |-> Cardinality({i \in DOMAIN notes : notes[i].is_deleted = 0 /\ notes[i].is_archived = 1}),
     trash |-> Cardinality({i \in DOMAIN notes : notes[i].is_deleted = 1})]

serialize_note(note) ==
    [note EXCEPT !.is_pinned = (note.is_pinned # 0),
                 !.is_archived = (note.is_archived # 0),
                 !.is_deleted = (note.is_deleted # 0)]

\* The payload of GET /api/notes.
list_notes_api(args) ==
    LET filters == load_filters(args)
        listing == fetch_notes(filters)
    IN  [filters |-> filters,
         counts |-> fetch_counts,
         notes |-> [k \in 1..Len(listing) |-> serialize_note(listing[k])]]

\* The ids of the notes a listing returns.
ListedIds(args) ==
    LET listing == fetch_notes(load_filters(args))
    IN  {listing[k].id : k \in 1..Len(listing)}

----------------------------------------------------------------------------
\* Handlers

\* An UPDATE without its WHERE clause: every row takes the new values.
UpdateWhereId_every_row(table, id, row) ==
    [i \in DOMAIN table |-> [row EXCEPT !.id = i]]

\* UPDATE notes SET ... WHERE id = ?
UpdateWhereId(table, id, row) ==
    [i \in DOMAIN table |-> IF i = id THEN row ELSE table[i]]

\* The SET clauses of the handlers' UPDATE statements.
\* An update that leaves the pin as it finds it.
update_note_set_keeps_pin(row, note_data, now) ==
    [row EXCEPT !.title = note_data.title,
                !.content = note_data.content,
                !.category = note_data.category,
                !.status = note_data.status,
                !.priority = note_data.priority,
                !.due_date = note_data.due_date,
                !.updated_at = now]

update_note_set(row, note_data, now) ==
    [row EXCEPT !.title = note_data.title,
                !.content = note_data.content,
                !.category = note_data.category,
                !.status = note_data.status,
                !.priority = note_data.priority,
                !.due_date = note_data.due_date,
                !.is_pinned = note_data.is_pinned,
                !.updated_at = now]

\* A pin toggle that does not touch updated_at.
toggle_pin_set_keeps_updated_at(row, note, now) ==
    [row EXCEPT !.is_pinned = IF note.is_pinned # 0 THEN 0 ELSE 1]

toggle_pin_set(row, note, now) ==
    [row EXCEPT !.is_pinned = IF note.is_pinned # 0 THEN 0 ELSE 1,
                !.updated_at = now]

\* An archive toggle that also unpins.
toggle_archive_set_unpins(row, note, now) ==
    [row EXCEPT !.is_archived = IF note.is_archived # 0 THEN 0 ELSE 1,
                !.is_pinned = 0,
                !.updated_at = now]

toggle_archive_set(row, note, now) ==
    [row EXCEPT !.is_archived = IF note.is_archived # 0 THEN 0 ELSE 1,
                !.updated_at = now]

\* A trash that leaves the note archived.
move_to_trash_set_keeps_archive(row, now) ==
    [row EXCEPT !.is_deleted = 1,
                !.is_pinned = 0,
                !.updated_at = now]

\* A trash that forgets to unpin.
move_to_trash_set_keeps_pin(row, now) ==
    [row EXCEPT !.is_deleted = 1,
                !.is_archived = 0,
                !.updated_at = now]

move_to_trash_set(row, now) ==
    [row EXCEPT !.is_deleted = 1,
                !.is_archived = 0,
                !.is_pinned = 0,
                !.updated_at = now]

\* A restore that forgets to clear the soft-delete marker.
restore_note_set_keeps_deleted(row, now) ==
    [row EXCEPT !.is_archived = 0,
                !.updated_at = now]

restore_note_set(row, now) ==
    [row EXCEPT !.is_deleted = 0,
                !.is_archived = 0,
                !.updated_at = now]

Init ==
    /\ notes = EmptyDict
    /\ seq = 0
    /\ clock = 0
    /\ purged = {}
    /\ resp = Response("none", 0, NoRow, NoForm, 0, None)
    /\ hist = Response("none", 0, NoRow, NoForm, 0, None)
    /\ columns = ensure_notes_schema([columns |-> NoTable, rows |-> EmptyDict]).columns
    /\ pending = <<>>

Tick ==
    /\ clock < MaxClock
    /\ clock' = clock + 1
    /\ UNCHANGED <<notes, seq, purged, resp, hist, columns, pending>>

create_note(form) ==
    LET normalized == Normalized[form]
        note_data == normalized[1]
        error == normalized[2]
        id == NextRowid(notes, seq)
    IN  IF error # None
        THEN /\ resp' = Response("create_note", 0, NoRow, form, 400, error)
             /\ UNCHANGED <<notes, seq, clock, purged>>
        ELSE /\ id <= MaxId
             /\ notes' = Insert(notes, NewRow(id, note_data, clock))
             /\ seq' = id
             /\ resp' = Response("create_note", 0, NoRow, form, 302, None)
             /\ UNCHANGED <<clock, purged>>

edit_note(note_id) ==
    LET note == get_note_or_404(note_id)
    IN  /\ resp' = IF note = NotFound THEN Response("edit_note", note_id, note, NoForm, 404, None)
                   ELSE IF note.is_deleted # 0
                   THEN Response("edit_note", note_id, note, NoForm, 404, None)
                   ELSE Response("edit_note", note_id, note, NoForm, 200, None)
        /\ UNCHANGED <<notes, seq, clock, purged>>

\* An update that validates the form before it looks at the note's state.
update_note_validates_first(note_id, form) ==
    LET note == get_note_or_404(note_id)
        normalized == Normalized[form]
        note_data == normalized[1]
        error == normalized[2]
        row == update_note_set(notes[note_id], note_data, clock)
    IN  IF note = NotFound
        THEN /\ resp' = Response("update_note", note_id, note, form, 404, None)
             /\ UNCHANGED <<notes, seq, clock, purged>>
        ELSE IF error # None
        THEN /\ resp' = Response("update_note", note_id, note, form, 400, error)
             /\ UNCHANGED <<notes, seq, clock, purged>>
        ELSE IF note.is_deleted # 0
        THEN /\ resp' = Response("update_note", note_id, note, form, 404, None)
             /\ UNCHANGED <<notes, seq, clock, purged>>
        ELSE /\ notes' = UpdateWhereId(notes, note_id, row)
             /\ resp' = Response("update_note", note_id, note, form,
                                 IF RowCount(notes, note_id) = 0 THEN 404 ELSE 302, None)
             /\ UNCHANGED <<seq, clock, purged>>

\* An update that writes the pin checkbox of a form it then refuses.
update_note_applies_pin_on_error(note_id, form) ==
    LET note == get_note_or_404(note_id)
        normalized == Normalized[form]
        note_data == normalized[1]
        error == normalized[2]
        row == update_note_set(notes[note_id], note_data, clock)
        form_note == [notes[note_id] EXCEPT
                        !.is_pinned = IF "is_pinned" \in DOMAIN form THEN 1 ELSE 0,
                        !.updated_at = clock]
    IN  IF note = NotFound
        THEN /\ resp' = Response("update_note", note_id, note, form, 404, None)
             /\ UNCHANGED <<notes, seq, clock, purged>>
        ELSE IF note.is_deleted # 0
        THEN /\ resp' = Response("update_note", note_id, note, form, 404, None)
             /\ UNCHANGED <<notes, seq, clock, purged>>
        ELSE IF error # None
        THEN /\ notes' = UpdateWhereId(notes, note_id, form_note)
             /\ resp' = Response("update_note", note_id, note, form, 400, error)
             /\ UNCHANGED <<seq, clock, purged>>
        ELSE /\ notes' = UpdateWhereId(notes, note_id, row)
             /\ resp' = Response("update_note", note_id, note, form,
                                 IF RowCount(notes, note_id) = 0 THEN 404 ELSE 302, None)
             /\ UNCHANGED <<seq, clock, purged>>

update_note(note_id, form) ==
    LET note == get_note_or_404(note_id)
        normalized == Normalized[form]
        note_data == normalized[1]
        error == normalized[2]
        row == update_note_set(notes[note_id], note_data, clock)
    IN  IF note = NotFound
        THEN /\ resp' = Response("update_note", note_id, note, form, 404, None)
             /\ UNCHANGED <<notes, seq, clock, purged>>
        ELSE IF note.is_deleted # 0
        THEN /\ resp' = Response("update_note", note_id, note, form, 404, None)
             /\ UNCHANGED <<notes, seq, clock, purged>>
        ELSE IF error # None
        THEN /\ resp' = Response("update_note", note_id, note, form, 400, error)
             /\ UNCHANGED <<notes, seq, clock, purged>>
        ELSE /\ notes' = UpdateWhereId(notes, note_id, row)
             /\ resp' = Response("update_note", note_id, note, form,
                                 IF RowCount(notes, note_id) = 0 THEN 404 ELSE 302, None)
             /\ UNCHANGED <<seq, clock, purged>>

toggle_pin(note_id) ==
    LET note == get_note_or_404(note_id)
        row == toggle_pin_set(notes[note_id], note, clock)
    IN  IF note = NotFound
        THEN /\ resp' = Response("toggle_pin", note_id, note, NoForm, 404, None)
             /\ UNCHANGED <<notes, seq, clock, purged>>
        ELSE IF note.is_deleted # 0
        THEN /\ resp' = Response("toggle_pin", note_id, note, NoForm, 404, None)
             /\ UNCHANGED <<notes, seq, clock, purged>>
        ELSE /\ notes' = UpdateWhereId(notes, note_id, row)
             /\ resp' = Response("toggle_pin", note_id, note, NoForm, 302, None)
             /\ UNCHANGED <<seq, clock, purged>>

toggle_archive(note_id) ==
    LET note == get_note_or_404(note_id)
        row == toggle_archive_set(notes[note_id], note, clock)
    IN  IF note = NotFound
        THEN /\ resp' = Response("toggle_archive", note_id, note, NoForm, 404, None)
             /\ UNCHANGED <<notes, seq, clock, purged>>
        ELSE IF note.is_deleted # 0
        THEN /\ resp' = Response("toggle_archive", note_id, note, NoForm, 404, None)
             /\ UNCHANGED <<notes, seq, clock, purged>>
        ELSE /\ notes' = UpdateWhereId(notes, note_id, row)
             /\ resp' = Response("toggle_archive", note_id, note, NoForm, 302, None)
             /\ UNCHANGED <<seq, clock, purged>>

move_to_trash(note_id) ==
    LET note == get_note_or_404(note_id)
        row == move_to_trash_set(notes[note_id], clock)
    IN  IF note = NotFound
        THEN /\ resp' = Response("move_to_trash", note_id, note, NoForm, 404, None)
             /\ UNCHANGED <<notes, seq, clock, purged>>
        ELSE IF note.is_deleted # 0
        THEN /\ resp' = Response("move_to_trash", note_id, note, NoForm, 404, None)
             /\ UNCHANGED <<notes, seq, clock, purged>>
        ELSE /\ notes' = UpdateWhereId(notes, note_id, row)
             /\ resp' = Response("move_to_trash", note_id, note, NoForm, 302, None)
             /\ UNCHANGED <<seq, clock, purged>>

\* A restore that writes whether or not the note is in the trash.
restore_note_always_writes(note_id) ==
    LET note == get_note_or_404(note_id)
        row == restore_note_set(notes[note_id], clock)
    IN  IF note = NotFound
        THEN /\ resp' = Response("restore_note", note_id, note, NoForm, 404, None)
             /\ UNCHANGED <<notes, seq, clock, purged>>
        ELSE /\ notes' = UpdateWhereId(notes, note_id, row)
             /\ resp' = Response("restore_note", note_id, note, NoForm, 302, None)
             /\ UNCHANGED <<seq, clock, purged>>

\* A restore that treats a missing note like a note that is not trashed.
restore_note_missing_is_noop(note_id) ==
    LET note == get_note_or_404(note_id)
        row == restore_note_set(notes[note_id], clock)
    IN  IF note = NotFound \/ note.is_deleted = 0
        THEN /\ resp' = Response("restore_note", note_id, note, NoForm, 302, None)
             /\ UNCHANGED <<notes, seq, clock, purged>>
        ELSE /\ notes' = UpdateWhereId(notes, note_id, row)
             /\ resp' = Response("restore_note", note_id, note, NoForm, 302, None)
             /\ UNCHANGED <<seq, clock, purged>>

restore_note(note_id) ==
    LET note == get_note_or_404(note_id)
        row == restore_note_set(notes[note_id], clock)
    IN  IF note = NotFound
        THEN /\ resp' = Response("restore_note", note_id, note, NoForm, 404, None)
             /\ UNCHANGED <<notes, seq, clock, purged>>
        ELSE IF note.is_deleted = 0
        THEN /\ resp' = Response("restore_note", note_id, note, NoForm, 302, None)
             /\ UNCHANGED <<notes, seq, clock, purged>>
        ELSE /\ notes' = UpdateWhereId(notes, note_id, row)
             /\ resp' = Response("restore_note", note_id, note, NoForm, 302, None)
             /\ UNCHANGED <<seq, clock, purged>>

purge_note(note_id) ==
    LET note == get_note_or_404(note_id)
    IN  IF note = NotFound
        THEN /\ resp' = Response("purge_note", note_id, note, NoForm, 404, None)
             /\ UNCHANGED <<notes, seq, clock, purged>>
        ELSE /\ notes' = Delete(notes, note_id)
             /\ purged' = purged \cup {note_id}
             /\ resp' = Response("purge_note", note_id, note, NoForm,
                                 IF RowCount(notes, note_id) = 0 THEN 404 ELSE 302, None)
             /\ UNCHANGED <<seq, clock>>

note_detail_api(note_id) ==
    LET note == get_note_or_404(note_id)
    IN  /\ resp' = IF note = NotFound
                   THEN Response("note_detail_api", note_id, note, NoForm, 404, None)
                   ELSE Response("note_detail_api", note_id, note, NoForm, 200, None)
        /\ UNCHANGED <<notes, seq, clock, purged>>

\* Every handler on every form, on a table of at most MaxRows rows; all requests
\* fall within one second.
Next ==
    \/ \E form \in Forms :
        /\ create_note(form)
        /\ Cardinality(DOMAIN notes') <= MaxRows
        /\ UNCHANGED <<hist, columns, pending>>
    \/ \E note_id \in NoteIds : edit_note(note_id) /\ UNCHANGED <<hist, columns, pending>>
    \/ \E note_id \in NoteIds, form \in Forms : update_note(note_id, form) /\ UNCHANGED <<hist, columns, pending>>
    \/ \E note_id \in NoteIds : toggle_pin(note_id) /\ UNCHANGED <<hist, columns, pending>>
    \/ \E note_id \in NoteIds : toggle_archive(note_id) /\ UNCHANGED <<hist, columns, pending>>
    \/ \E note_id \in NoteIds : move_to_trash(note_id) /\ UNCHANGED <<hist, columns, pending>>
    \/ \E note_id \in NoteIds : restore_note(note_id) /\ UNCHANGED <<hist, columns, pending>>
    \/ \E note_id \in NoteIds : purge_note(note_id) /\ UNCHANGED <<hist, columns, pending>>
    \/ \E note_id \in NoteIds : note_detail_api(note_id) /\ UNCHANGED <<hist, columns, pending>>

Spec == Init /\ [][Next]_vars

\* Every handler, with time passing between requests, on a table kept small.
NextClock ==
    \/ Tick
    \/ \E form \in ClockForms :
        /\ create_note(form)
        /\ Cardinality(DOMAIN notes') <= MaxClockRows
        /\ UNCHANGED <<hist, columns, pending>>
    \/ \E note_id \in NoteIds : edit_note(note_id) /\ UNCHANGED <<hist, columns, pending>>
    \/ \E note_id \in NoteIds, form \in ClockForms : update_note(note_id, form) /\ UNCHANGED <<hist, columns, pending>>
    \/ \E note_id \in NoteIds : toggle_pin(note_id) /\ UNCHANGED <<hist, columns, pending>>
    \/ \E note_id \in NoteIds : toggle_archive(note_id) /\ UNCHANGED <<hist, columns, pending>>
    \/ \E note_id \in NoteIds : move_to_trash(note_id) /\ UNCHANGED <<hist, columns, pending>>
    \/ \E note_id \in NoteIds : restore_note(note_id) /\ UNCHANGED <<hist, columns, pending>>
    \/ \E note_id \in NoteIds : purge_note(note_id) /\ UNCHANGED <<hist, columns, pending>>
    \/ \E note_id \in NoteIds : note_detail_api(note_id) /\ UNCHANGED <<hist, columns, pending>>

SpecClock == Init /\ [][NextClock]_vars

\* Every handler, remembering the request before the last one.
NextHist ==
    \/ \E form \in HistForms :
        /\ create_note(form)
        /\ Cardinality(DOMAIN notes') <= MaxRows
        /\ hist' = resp /\ UNCHANGED <<columns, pending>>
    \/ \E note_id \in NoteIds : edit_note(note_id) /\ hist' = resp /\ UNCHANGED <<columns, pending>>
    \/ \E note_id \in NoteIds, form \in HistForms : update_note(note_id, form) /\ hist' = resp /\ UNCHANGED <<columns, pending>>
    \/ \E note_id \in NoteIds : toggle_pin(note_id) /\ hist' = resp /\ UNCHANGED <<columns, pending>>
    \/ \E note_id \in NoteIds : toggle_archive(note_id) /\ hist' = resp /\ UNCHANGED <<columns, pending>>
    \/ \E note_id \in NoteIds : move_to_trash(note_id) /\ hist' = resp /\ UNCHANGED <<columns, pending>>
    \/ \E note_id \in NoteIds : restore_note(note_id) /\ hist' = resp /\ UNCHANGED <<columns, pending>>
    \/ \E note_id \in NoteIds : purge_note(note_id) /\ hist' = resp /\ UNCHANGED <<columns, pending>>
    \/ \E note_id \in NoteIds : note_detail_api(note_id) /\ hist' = resp /\ UNCHANGED <<columns, pending>>

SpecHist == Init /\ [][NextHist]_vars

----------------------------------------------------------------------------
\* The schema manager on a database file that exists before the application starts

\* The rows an older version of the application stored.
LegacyRows(id) ==
    { [id |-> id, title |-> title, content |-> content, created_at |-> 0,
       updated_at |-> updated_at] :
        title \in {t_dep_bare, <<"A", "%">>}, content \in {<<>>, c_ship},
        updated_at \in 0..1 }

\* A row of a notes table that has every column but was not written by this
\* application: the table declares no NOT NULL and no CHECK, so a column holds
\* whatever was put there.
PreexistingRow(id, category, status, priority, flags) ==
    [id |-> id, title |-> t_dep_bare, content |-> c_ship, category |-> category,
     status |-> status, priority |-> priority, due_date |-> None,
     is_pinned |-> flags[1], is_archived |-> flags[2], is_deleted |-> flags[3],
     created_at |-> 0, updated_at |-> 0]

PreexistingRows(id) ==
    { PreexistingRow(id, g_work, s_done, s_high, <<1, 1, 0>>),
      PreexistingRow(id, g_work_padded, st_Done, pr_urgent, <<NullFlag, NullFlag, NullFlag>>),
      PreexistingRow(id, None, None, None, <<0, 0, 2>>),
      PreexistingRow(id, <<"\t">>, s_todo, s_low, <<2, 0, 1>>),
      PreexistingRow(id, g_blank, s_in_progress, s_medium, <<0, 1, 1>>) }

\* A database file with no notes table, with the table of the older version, or
\* with a table of the current columns filled by something else.
InitLegacy ==
    /\ \/ columns = NoTable /\ notes = EmptyDict
       \/ /\ columns = LegacyColumns
          /\ \E ids \in SUBSET (1..MaxLegacyRows) :
                notes \in { table \in [ids -> UNION {LegacyRows(id) : id \in ids}] :
                                \A id \in ids : table[id].id = id }
       \/ /\ columns = NotesColumns
          /\ \E ids \in SUBSET (1..MaxLegacyRows) :
                notes \in { table \in [ids -> UNION {PreexistingRows(id) : id \in ids}] :
                                \A id \in ids : table[id].id = id }
    /\ seq = Max({0} \cup DOMAIN notes)
    /\ clock = 1
    /\ purged = {}
    /\ resp = [op |-> "none", runs |-> 0]
    /\ hist = [columns |-> columns, rows |-> notes]
    /\ pending = <<>>

\* init_db: the schema manager runs and commits; hist keeps the file as it was found.
init_db ==
    LET db == ensure_notes_schema([columns |-> columns, rows |-> notes])
    IN  /\ resp.runs < MaxRuns
        /\ columns' = db.columns
        /\ notes' = db.rows
        /\ resp' = [op |-> "init_db", runs |-> resp.runs + 1]
        /\ UNCHANGED <<seq, clock, purged, hist, pending>>

NextSchema == init_db

SpecSchema == InitLegacy /\ [][NextSchema]_vars

----------------------------------------------------------------------------
\* Listings of a store that earlier requests have filled

d_2024_02_29 == <<"2", "0", "2", "4", "-", "0", "2", "-", "2", "9">>
g_Work == <<"W", "o", "r", "k">>
t_a_b == <<"a", "_", "b">>

StoredRow(id, text, status, priority, due_date, flags, updated_at) ==
    [id |-> id, title |-> text[1], content |-> text[2], category |-> text[3],
     status |-> status, priority |-> priority, due_date |-> due_date,
     is_pinned |-> flags[1], is_archived |-> flags[2], is_deleted |-> flags[3],
     created_at |-> 0, updated_at |-> updated_at]

\* Rows that creates, updates, toggles, trashes and restores leave under an id:
\* pinned and not, of each priority, with and without a due date, written in
\* different seconds, in each of the three views.
StoredRows(id) ==
    { StoredRow(id, <<t_dep_bare, <<"s", "h", "i", "p">>, g_work>>, s_in_progress, s_high,
                d_2026_03_05, <<1, 0, 0>>, 0),
      StoredRow(id, <<t_dep_bare, <<"s", "h", "i", "p">>, g_work>>, s_in_progress, s_high,
                d_2026_03_05, <<0, 0, 0>>, 1),
      StoredRow(id, <<t_a_b, <<>>, g_Work>>, s_todo, s_high, d_2024_02_29, <<0, 0, 0>>, 1),
      StoredRow(id, <<t_dep_bare, <<>>, g_work>>, s_in_progress, s_high, None, <<0, 0, 0>>, 1),
      StoredRow(id, <<t_dep_bare, <<>>, g_work>>, s_in_progress, s_high, None, <<0, 0, 0>>, 0),
      StoredRow(id, <<t_dep_bare, <<>>, s_general>>, s_done, s_low, None, <<1, 0, 0>>, 1),
      StoredRow(id, <<<<"A", "%">>, <<>>, s_general>>, s_todo, s_medium, d_2024_02_29,
                <<0, 0, 0>>, 0),
      StoredRow(id, <<t_dep_bare, <<"s", "h", "i", "p">>, g_work>>, s_done, s_high,
                d_2026_03_05, <<1, 1, 0>>, 1),
      StoredRow(id, <<<<"A", "%">>, <<>>, s_general>>, s_todo, s_medium, d_2024_02_29,
                <<0, 0, 1>>, 1),
      StoredRow(id, <<t_dep_bare, <<>>, Normalized[f_all][1].category>>, s_todo, s_medium,
                None, <<0, 0, 0>>, 0) }

\* Query strings of listing requests: every combination of the filters without
\* a text query, and text queries with and without pattern characters.
FilterArgs ==
    { [view |-> view, status |-> status, priority |-> priority, category |-> category] :
        view \in VIEWS, status \in {s_all, s_in_progress, s_done},
        priority \in {s_all, s_high}, category \in {s_all, g_work, s_general} }

TextArgs ==
    { [view |-> view, q |-> q] :
        view \in VIEWS,
        q \in { <<"%">>, <<"_">>, <<"e">>, <<"D", "E", "P">>, <<"a", "_">>, <<" ", "w", "o", "r", "k">> } }
    \cup { [q |-> <<"e">>, status |-> s_done], [q |-> <<"_">>, category |-> g_Work] }

InitStored ==
    /\ \E ids \in SUBSET (1..MaxListRows) :
            notes \in { table \in [ids -> UNION {StoredRows(id) : id \in ids}] :
                            \A id \in ids : table[id].id = id }
    /\ seq = Max({0} \cup DOMAIN notes)
    /\ clock = 1
    /\ purged = {}
    /\ resp = [op |-> "none"]
    /\ hist = [op |-> "none"]
    /\ columns = NotesColumns
    /\ pending = <<>>

\* GET /api/notes. A listing writes nothing, so the first listing of a store
\* shows what any later one would.
api_notes(args) ==
    /\ resp.op = "none"
    /\ resp' = [op |-> "list_notes_api", args |-> args, payload |-> list_notes_api(args)]
    /\ UNCHANGED <<notes, seq, clock, purged, hist, columns, pending>>

NextList ==
    \/ \E args \in FilterArgs : api_notes(args)
    \/ \E args \in TextArgs : api_notes(args)

SpecList == InitStored /\ [][NextList]_vars

----------------------------------------------------------------------------
\* The filter normaliser on query strings

\* value with k blanks before it and k tabs after it.
RECURSIVE Padded(_, _)
Padded(value, k) ==
    IF k = 0 THEN value ELSE <<" ">> \o Padded(value, k - 1) \o <<"\t">>

\* The values a key may carry: each given value, bare and padded.
Values(given) == {Padded(value, k) : value \in given, k \in 0..MaxPad}

\* The mappings that carry the key with one of the values, or do not carry it.
WithKey(key, given) == {EmptyDict} \cup {[k \in {key} |-> value] : value \in Values(given)}

\* The union of five mappings whose keys differ.
Merge(a, b, c, d, e) ==
    [k \in DOMAIN a \cup DOMAIN b \cup DOMAIN c \cup DOMAIN d \cup DOMAIN e |->
        IF k \in DOMAIN a THEN a[k] ELSE IF k \in DOMAIN b THEN b[k]
        ELSE IF k \in DOMAIN c THEN c[k] ELSE IF k \in DOMAIN d THEN d[k] ELSE e[k]]

\* Query strings: each key missing, blank, known, unknown, bare or padded.
QueryStrings ==
    { Merge(q, status, priority, category, view) :
        q \in WithKey("q", {<<>>, <<"e">>}),
        status \in WithKey("status", {<<>>, s_done, st_Done}),
        priority \in WithKey("priority", {s_high, pr_urgent}),
        category \in WithKey("category", {<<>>, s_all, g_work}),
        view \in WithKey("view", {s_trash, <<"b", "i", "n">>}) }

InitFilters ==
    /\ notes = EmptyDict
    /\ seq = 0
    /\ clock = 0
    /\ purged = {}
    /\ resp = [op |-> "none"]
    /\ hist = [op |-> "none"]
    /\ columns = NotesColumns
    /\ pending = <<>>

\* The first request arrives with a query string and load_filters reads it.
filters_of_request(args) ==
    /\ resp' = [op |-> "load_filters", args |-> args, filters |-> load_filters(args)]
    /\ UNCHANGED <<notes, seq, clock, purged, hist, columns, pending>>

\* The next request carries the filter record of the last response as its query
\* string; hist keeps the first request.
filters_of_filters ==
    /\ resp.op = "load_filters"
    /\ hist.op = "none"
    /\ hist' = resp
    /\ resp' = [op |-> "load_filters", args |-> resp.filters, filters |-> load_filters(resp.filters)]
    /\ UNCHANGED <<notes, seq, clock, purged, columns, pending>>

NextFilters ==
    \/ resp.op = "none" /\ \E args \in QueryStrings : filters_of_request(args)
    \/ filters_of_filters

SpecFilters == InitFilters /\ [][NextFilters]_vars

----------------------------------------------------------------------------
\* The redirect that answers a write

startswith(s, prefix) ==
    Len(s) >= Len(prefix) /\ SubSeq(s, 1, Len(prefix)) = prefix

\* url_for("index"): the listing page.
url_for_index == <<"/">>

\* A guard that forgets the scheme-relative form //host.
sanitize_next_url_single_check(next_url, fallback) ==
    IF next_url # None /\ next_url # <<>> /\ startswith(next_url, <<"/">>)
    THEN next_url
    ELSE fallback

sanitize_next_url(next_url, fallback) ==
    IF next_url # None /\ next_url # <<>>
       /\ startswith(next_url, <<"/">>) /\ ~ startswith(next_url, <<"/", "/">>)
    THEN next_url
    ELSE fallback

\* The texts of up to n characters.
RECURSIVE Texts(_)
Texts(n) ==
    IF n = 0 THEN {<<>>}
    ELSE Texts(n - 1) \cup {Append(text, c) : text \in Texts(n - 1), c \in {"/", "a", " "}}

\* Submitted forms, for their next field: missing, or any text of up to
\* MaxNextLen characters.
NextForms == {EmptyDict} \cup {[k \in {"next"} |-> text] : text \in Texts(MaxNextLen)}

\* redirect_to_next, with which toggle_pin, toggle_archive, move_to_trash,
\* restore_note and purge_note answer.
redirect_to_next(form) ==
    /\ resp' = [op |-> "redirect_to_next", form |-> form,
                location |-> sanitize_next_url(FormGet(form, "next", None), url_for_index)]
    /\ UNCHANGED <<notes, seq, clock, purged, hist, columns, pending>>

\* The redirect of a successful update_note.
update_note_redirect(form) ==
    /\ resp' = [op |-> "update_note", form |-> form,
                location |-> sanitize_next_url(FormGet(form, "next", None), url_for_index)]
    /\ UNCHANGED <<notes, seq, clock, purged, hist, columns, pending>>

\* The redirect of a successful create_note.
create_note_redirect(form) ==
    /\ resp' = [op |-> "create_note", form |-> form, location |-> url_for_index]
    /\ UNCHANGED <<notes, seq, clock, purged, hist, columns, pending>>

\* One write request per behaviour: its redirect depends on its form alone.
NextRedirect ==
    \/ resp.op = "none" /\ \E form \in NextForms : redirect_to_next(form)
    \/ resp.op = "none" /\ \E form \in NextForms : update_note_redirect(form)
    \/ resp.op = "none" /\ \E form \in NextForms : create_note_redirect(form)

SpecRedirect == InitFilters /\ [][NextRedirect]_vars

----------------------------------------------------------------------------
\* Concurrent requests. Each request has its own connection; its SELECT and its
\* UPDATE or DELETE are two statements, each atomic, and other requests'
\* statements may run between them. Nothing is locked after the SELECT, which
\* runs outside a transaction.

RequestIds == 1..MaxRequests

Idle == [pc |-> "idle"]

\* The request has run get_note_or_404 and passed the handler's test; it holds
\* the flags it fetched and has its write ahead.
Selected(r, op, note_id, note) ==
    [pending EXCEPT ![r] =
        [pc |-> "selected", op |-> op, id |-> note_id, note |-> Flags(note),
         order |-> Cardinality({o \in RequestIds : pending[o] # Idle})]]

\* The request was answered.
Answered(r, op, note_id, note, order, status) ==
    [pending EXCEPT ![r] =
        [pc |-> "answered", op |-> op, id |-> note_id, note |-> Flags(note),
         order |-> order, status |-> status]]

\* The handler up to its write: 404 for a missing note and, when the handler
\* refuses trashed notes, for a trashed one.
SelectStep(r, op, note_id, refuses_trashed) ==
    LET note == get_note_or_404(note_id)
        order == Cardinality({o \in RequestIds : pending[o] # Idle})
    IN  /\ pending[r] = Idle
        /\ pending' =
             IF note = NotFound THEN Answered(r, op, note_id, NoRow, order, 404)
             ELSE IF refuses_trashed /\ note.is_deleted # 0
             THEN Answered(r, op, note_id, note, order, 404)
             ELSE Selected(r, op, note_id, note)
        /\ UNCHANGED <<notes, seq, clock, purged, resp, hist, columns>>

\* The handler's UPDATE ... WHERE id = ?, its commit and its answer.
UpdateStep(r, op, row, status) ==
    /\ pending[r] # Idle
    /\ pending[r].pc = "selected"
    /\ pending[r].op = op
    /\ notes' = IF pending[r].id \in DOMAIN notes
                THEN UpdateWhereId(notes, pending[r].id, row)
                ELSE notes
    /\ pending' = Answered(r, op, pending[r].id, pending[r].note, pending[r].order, status)
    /\ UNCHANGED <<seq, clock, purged, resp, hist, columns>>

\* The row of the request's note as the table holds it now.
Current(r) == notes[pending[r].id]

toggle_pin_select(r, note_id) == SelectStep(r, "toggle_pin", note_id, TRUE)

toggle_pin_update(r) ==
    UpdateStep(r, "toggle_pin", toggle_pin_set(Current(r), pending[r].note, clock), 302)

toggle_archive_select(r, note_id) == SelectStep(r, "toggle_archive", note_id, TRUE)

toggle_archive_update(r) ==
    UpdateStep(r, "toggle_archive", toggle_archive_set(Current(r), pending[r].note, clock), 302)

move_to_trash_select(r, note_id) == SelectStep(r, "move_to_trash", note_id, TRUE)

move_to_trash_update(r) ==
    UpdateStep(r, "move_to_trash", move_to_trash_set(Current(r), clock), 302)

\* The form of the updates that race: f_deploy, which is valid and asks for the pin.
update_note_select(r, note_id) == SelectStep(r, "update_note", note_id, TRUE)

update_note_update(r) ==
    UpdateStep(r, "update_note", update_note_set(Current(r), Normalized[f_deploy][1], clock),
               IF RowCount(notes, pending[r].id) = 0 THEN 404 ELSE 302)

\* A restore of a note that is not trashed is answered without a write.
restore_note_select(r, note_id) ==
    LET note == get_note_or_404(note_id)
        order == Cardinality({o \in RequestIds : pending[o] # Idle})
    IN  /\ pending[r] = Idle
        /\ pending' =
             IF note = NotFound THEN Answered(r, "restore_note", note_id, NoRow, order, 404)
             ELSE IF note.is_deleted = 0
             THEN Answered(r, "restore_note", note_id, note, order, 302)
             ELSE Selected(r, "restore_note", note_id, note)
        /\ UNCHANGED <<notes, seq, clock, purged, resp, hist, columns>>

restore_note_update(r) ==
    UpdateStep(r, "restore_note", restore_note_set(Current(r), clock), 302)

\* A purge tests nothing but the existence of the note.
purge_note_select(r, note_id) == SelectStep(r, "purge_note", note_id, FALSE)

\* DELETE FROM notes WHERE id = ?
purge_note_delete(r) ==
    /\ pending[r] # Idle
    /\ pending[r].pc = "selected"
    /\ pending[r].op = "purge_note"
    /\ notes' = IF pending[r].id \in DOMAIN notes THEN Delete(notes, pending[r].id) ELSE notes
    /\ purged' = IF pending[r].id \in DOMAIN notes THEN purged \cup {pending[r].id} ELSE purged
    /\ pending' = Answered(r, "purge_note", pending[r].id, pending[r].note, pending[r].order,
                           IF RowCount(notes, pending[r].id) = 0 THEN 404 ELSE 302)
    /\ UNCHANGED <<seq, clock, resp, hist, columns>>

\* A create is one INSERT: it reads nothing first.
RaceForms == {f_deploy}

InitRace ==
    /\ notes = EmptyDict
    /\ seq = 0
    /\ clock = 0
    /\ purged = {}
    /\ resp = Response("none", 0, NoRow, NoForm, 0, None)
    /\ hist = Response("none", 0, NoRow, NoForm, 0, None)
    /\ columns = NotesColumns
    /\ pending = [r \in RequestIds |-> Idle]

NextRace ==
    \/ \E form \in RaceForms :
        /\ create_note(form)
        /\ Cardinality(DOMAIN notes') <= MaxRaceRows
        /\ UNCHANGED <<hist, columns, pending>>
    \/ \E r \in RequestIds, note_id \in NoteIds : toggle_pin_select(r, note_id)
    \/ \E r \in RequestIds : toggle_pin_update(r)
    \/ \E r \in RequestIds, note_id \in NoteIds : toggle_archive_select(r, note_id)
    \/ \E r \in RequestIds : toggle_archive_update(r)
    \/ \E r \in RequestIds, note_id \in NoteIds : move_to_trash_select(r, note_id)
    \/ \E r \in RequestIds : move_to_trash_update(r)
    \/ \E r \in RequestIds, note_id \in NoteIds : update_note_select(r, note_id)
    \/ \E r \in RequestIds : update_note_update(r)
    \/ \E r \in RequestIds, note_id \in NoteIds : restore_note_select(r, note_id)
    \/ \E r \in RequestIds : restore_note_update(r)
    \/ \E r \in RequestIds, note_id \in NoteIds : purge_note_select(r, note_id)
    \/ \E r \in RequestIds : purge_note_delete(r)

SpecRace == InitRace /\ [][NextRace]_vars

----------------------------------------------------------------------------
\* Properties

\* The ids listed by a view when the request carries no other filter.
UnfilteredIds(view) == ListedIds([view |-> view])

\* The last request found its note and the note was (was not) in the trash.
FetchedTrashed == resp.note \notin {NoRow, NotFound} /\ resp.note.is_deleted = 1
FetchedLive == resp.note \notin {NoRow, NotFound} /\ resp.note.is_deleted = 0

\* C1: trashing an existing note that is not in the trash succeeds and leaves it
\* with is_deleted set and is_archived and is_pinned cleared, whatever the two
\* flags were; the note is then listed by the trash view and by neither the
\* active nor the archived view.
C1_TrashClearsFlags ==
    (resp.op = "move_to_trash" /\ FetchedLive) =>
        /\ resp.status = 302
        /\ resp.id \in DOMAIN notes
        /\ notes[resp.id].is_deleted = 1
        /\ notes[resp.id].is_archived = 0
        /\ notes[resp.id].is_pinned = 0
        /\ resp.id \in UnfilteredIds(s_trash)
        /\ resp.id \notin UnfilteredIds(s_active)
        /\ resp.id \notin UnfilteredIds(s_archived)

\* A pinned and archived note has just been trashed.
C1_Witness ==
    /\ resp.op = "move_to_trash" /\ resp.status = 302
    /\ FetchedLive /\ resp.note.is_pinned = 1 /\ resp.note.is_archived = 1
    /\ notes[resp.id].is_deleted = 1

\* C2: a restore that directly follows the trash of the same note leaves the note
\* not deleted and not archived, listed by the active view and not by the
\* archived view, also when the note was archived when it was trashed.
C2_RestoreAfterTrashIsActive ==
    (/\ hist.op = "move_to_trash" /\ hist.status = 302
     /\ resp.op = "restore_note" /\ resp.id = hist.id) =>
        /\ resp.status = 302
        /\ resp.id \in DOMAIN notes
        /\ notes[resp.id].is_deleted = 0
        /\ notes[resp.id].is_archived = 0
        /\ resp.id \in UnfilteredIds(s_active)
        /\ resp.id \notin UnfilteredIds(s_archived)

\* An archived note was trashed and then restored.
C2_Witness ==
    /\ hist.op = "move_to_trash" /\ hist.status = 302 /\ hist.note.is_archived = 1
    /\ resp.op = "restore_note" /\ resp.id = hist.id /\ resp.status = 302
    /\ FetchedTrashed

\* C3: a purge of an existing note succeeds whatever the note's state and removes
\* the row; from then on the id is never stored again: fetching it is not-found,
\* no view lists it, and no later create is given that id.
C3_PurgeIsPermanent ==
    /\ (resp.op = "purge_note" /\ resp.note # NotFound) =>
            (resp.status = 302 /\ resp.id \in purged)
    /\ \A id \in purged :
        /\ get_note_or_404(id) = NotFound
        /\ id \notin DOMAIN notes
        /\ \A view \in VIEWS : id \notin UnfilteredIds(view)

\* The first note was purged and the create that followed was given the next id.
C3_Witness ==
    /\ resp.op = "create_note" /\ resp.status = 302
    /\ seq > 1 /\ (seq - 1) \in purged
    /\ DOMAIN notes = {seq}

WritesOnLiveNotes == {"update_note", "toggle_pin", "toggle_archive", "move_to_trash"}

\* C4: update, toggle_pin, toggle_archive and trash on a note that is in the trash
\* fail with not-found and change no stored note; for update this is so whether
\* or not the form is valid.
C4_TrashedNoteRejectsWrites ==
    [][(/\ resp'.op \in WritesOnLiveNotes
        /\ resp'.id \in DOMAIN notes
        /\ notes[resp'.id].is_deleted = 1)
       => (resp'.status = 404 /\ notes' = notes)]_vars

\* An update with an invalid form was refused as not-found on a trashed note.
C4_Witness ==
    /\ resp.op = "update_note" /\ resp.status = 404
    /\ FetchedTrashed
    /\ Normalized[resp.form][2] # None
    /\ notes[resp.id].is_deleted = 1

WritesOnNotes == WritesOnLiveNotes \cup {"restore_note", "purge_note"}

\* C5: update, toggle_pin, toggle_archive, trash, restore and purge on an id that
\* is not stored fail with not-found and leave the store unchanged.
C5_MissingNoteIsNotFound ==
    [][(resp'.op \in WritesOnNotes /\ resp'.id \notin DOMAIN notes)
       => (resp'.status = 404 /\ notes' = notes /\ seq' = seq)]_vars

\* A restore named an id that had been purged, while another note was stored.
C5_Witness ==
    /\ resp.op = "restore_note" /\ resp.status = 404
    /\ resp.id \in purged
    /\ DOMAIN notes # {}

\* The first complaint about a form when its status, priority and due date are
\* read as submitted and only the title is trimmed.
OffendingAsSubmitted(form) ==
    LET title == strip(FormGet(form, "title", <<>>))
        status == FormGet(form, "status", s_todo)
        priority == FormGet(form, "priority", s_medium)
        due_date == FormGet(form, "due_date", <<>>)
    IN  IF title = <<>> THEN ErrTitle
        ELSE IF status \notin STATUSES THEN ErrStatus
        ELSE IF priority \notin PRIORITIES THEN ErrPriority
        ELSE IF due_date # <<>> /\ fromisoformat(due_date) = ValueError THEN ErrDueDate
        ELSE None

\* The first complaint about a form when every field is trimmed first.
OffendingTrimmed(form) ==
    LET title == strip(FormGet(form, "title", <<>>))
        status == strip(FormGet(form, "status", s_todo))
        priority == strip(FormGet(form, "priority", s_medium))
        due_date == strip(FormGet(form, "due_date", <<>>))
    IN  IF title = <<>> THEN ErrTitle
        ELSE IF status \notin STATUSES THEN ErrStatus
        ELSE IF priority \notin PRIORITIES THEN ErrPriority
        ELSE IF due_date # <<>> /\ fromisoformat(due_date) = ValueError THEN ErrDueDate
        ELSE None

\* C6 as stated: a create whose title is blank after trimming, or whose status,
\* priority or non-empty due date as submitted is not acceptable, fails with a
\* validation error naming the first such field and inserts no row.
C6_AsStated ==
    [][(resp'.op = "create_note" /\ OffendingAsSubmitted(resp'.form) # None)
       => /\ resp'.status = 400
          /\ resp'.error = OffendingAsSubmitted(resp'.form)
          /\ notes' = notes /\ seq' = seq]_vars

\* C6: a create whose title is blank after trimming, whose trimmed status or
\* priority is outside its set, or whose trimmed due date is non-empty and does
\* not parse, fails with a validation error and inserts no row; the error names
\* the first offending field in the order title, status, priority, due date.
C6_InvalidCreateRejected ==
    [][(resp'.op = "create_note" /\ OffendingTrimmed(resp'.form) # None)
       => /\ resp'.status = 400
          /\ resp'.error = OffendingTrimmed(resp'.form)
          /\ notes' = notes /\ seq' = seq]_vars

\* A create with a bad status and a bad priority was refused for its status,
\* with a note already stored.
C6_Witness ==
    /\ resp.op = "create_note" /\ resp.status = 400 /\ resp.error = ErrStatus
    /\ strip(FormGet(resp.form, "priority", s_medium)) \notin PRIORITIES
    /\ DOMAIN notes # {}

\* The row a successful create inserts, for a due date and text fields read as
\* the given operators read them.
CreatedAs(form, id, Field(_), DueDate(_)) ==
    LET category == strip(FormGet(form, "category", s_general))
    IN  /\ id \notin DOMAIN notes
        /\ DOMAIN notes' = DOMAIN notes \cup {id}
        /\ \A other \in DOMAIN notes : notes'[other] = notes[other]
        /\ notes'[id].id = id
        /\ notes'[id].title = strip(FormGet(form, "title", <<>>))
        /\ notes'[id].content = strip(FormGet(form, "content", <<>>))
        /\ notes'[id].category = IF category = <<>> THEN s_general ELSE category
        /\ notes'[id].status = Field(FormGet(form, "status", s_todo))
        /\ notes'[id].priority = Field(FormGet(form, "priority", s_medium))
        /\ notes'[id].due_date = DueDate(FormGet(form, "due_date", <<>>))
        /\ notes'[id].is_pinned =
              IF "is_pinned" \in DOMAIN form /\ form["is_pinned"] \in {s_on, s_1, s_true}
              THEN 1 ELSE 0
        /\ notes'[id].is_archived = 0
        /\ notes'[id].is_deleted = 0
        /\ get_note_or_404(id)' = notes'[id]

AsGiven(text) == text
DueDateAsGiven(text) == IF strip(text) = <<>> THEN None ELSE text
DueDateIso(text) ==
    IF strip(text) = <<>> THEN None ELSE isoformat(fromisoformat(strip(text)))

\* C7 as stated: a create that passes validation inserts exactly one note, with
\* trimmed title, content and category, and with status, priority and due date
\* as submitted.
C7_AsStated ==
    [][(resp'.op = "create_note" /\ resp'.status = 302)
       => \E id \in NoteIds : CreatedAs(resp'.form, id, AsGiven, DueDateAsGiven)]_vars

\* C7: a create whose trimmed fields pass validation succeeds and inserts exactly
\* one note: title, content, status and priority are the trimmed inputs, category
\* is the trimmed input or "general" when blank, due_date is the trimmed input
\* date written as YYYY-MM-DD or absent when blank, is_pinned is set exactly for
\* the tokens on, 1 and true, is_archived and is_deleted are clear, and a fetch by
\* id returns the row.
C7_ValidCreateInserts ==
    [][(resp'.op = "create_note" /\ OffendingTrimmed(resp'.form) = None)
       => /\ resp'.status = 302
          /\ \E id \in NoteIds : CreatedAs(resp'.form, id, strip, DueDateIso)]_vars

\* A create with a padded status, a blank category and a pin token that is not
\* one of the three has inserted a second note.
C7_Witness ==
    /\ resp.op = "create_note" /\ resp.status = 302
    /\ seq = 2 /\ seq \in DOMAIN notes
    /\ FormGet(resp.form, "status", s_todo) # notes[seq].status
    /\ notes[seq].category = s_general
    /\ "is_pinned" \in DOMAIN resp.form /\ notes[seq].is_pinned = 0

\* C8: every stored note that is in the trash is neither archived nor pinned.
C8_TrashedNotesCarryNoFlags ==
    \A id \in DOMAIN notes :
        notes[id].is_deleted = 1 => (notes[id].is_archived = 0 /\ notes[id].is_pinned = 0)

\* A pin toggle was refused on a trashed note while another note is pinned and archived.
C8_Witness ==
    /\ resp.op = "toggle_pin" /\ resp.status = 404 /\ FetchedTrashed
    /\ \E other \in DOMAIN notes :
        /\ notes[other].is_deleted = 0
        /\ notes[other].is_pinned = 1
        /\ notes[other].is_archived = 1

IsCalendarDate(text) ==
    /\ Len(text) = 10
    /\ text[5] = "-" /\ text[8] = "-"
    /\ \A i \in {1, 2, 3, 4, 6, 7, 9, 10} : text[i] \in Digits
    /\ LET year == Num(SubSeq(text, 1, 4))
           month == Num(SubSeq(text, 6, 7))
           day == Num(SubSeq(text, 9, 10))
       IN  /\ year >= 1
           /\ month \in 1..12
           /\ day >= 1 /\ day <= DaysInMonth(year, month)

\* C9: every stored note has a title and a category that are not blank, a status
\* and a priority of their sets, and a due date that is absent or a calendar date.
C9_StoredNotesAreValid ==
    \A id \in DOMAIN notes :
        /\ strip(notes[id].title) # <<>>
        /\ strip(notes[id].category) # <<>>
        /\ notes[id].status \in {s_todo, s_in_progress, s_done}
        /\ notes[id].priority \in {s_low, s_medium, s_high}
        /\ notes[id].due_date = None \/ IsCalendarDate(notes[id].due_date)

\* An update with an unparseable due date was refused on a note that has a due date.
C9_Witness ==
    /\ resp.op = "update_note" /\ resp.status = 400 /\ resp.error = ErrDueDate
    /\ notes[resp.id].due_date # None

\* Query strings a listing request may carry.
ListArgs ==
    { [view |-> s_active],
      [status |-> s_in_progress],
      [view |-> s_trash, q |-> <<"e">>],
      [view |-> s_archived, priority |-> s_high, category |-> g_work],
      [view |-> <<"b", "i", "n">>, status |-> st_Done, category |-> g_blank] }

\* C10: every stored note is listed by exactly one of the three unfiltered views;
\* the counts of a listing response are the sizes of those three listings,
\* whatever filters the request carries, and they add up to the number of notes.
C10_ViewsPartitionNotes ==
    /\ \A id \in DOMAIN notes :
            Cardinality({view \in VIEWS : id \in UnfilteredIds(view)}) = 1
    /\ \A args \in ListArgs :
        LET counts == list_notes_api(args).counts
        IN  /\ counts.active = Len(fetch_notes(load_filters([view |-> s_active])))
            /\ counts.archived = Len(fetch_notes(load_filters([view |-> s_archived])))
            /\ counts.trash = Len(fetch_notes(load_filters([view |-> s_trash])))
            /\ counts.active + counts.archived + counts.trash = Cardinality(DOMAIN notes)

\* One note is in the trash and another is archived.
C10_Witness ==
    \E i \in DOMAIN notes, j \in DOMAIN notes :
        /\ notes[i].is_deleted = 1
        /\ notes[j].is_deleted = 0 /\ notes[j].is_archived = 1

\* C18: on a file whose notes table has the legacy columns, the schema manager
\* adds the missing columns, keeps every row with its id, title, content and
\* timestamps, and gives each row category general, status todo, priority
\* medium, no due date and the three flags clear; a run that follows another run
\* changes neither the columns nor any row.
C18_SchemaManagerIsIdempotent ==
    [][(resp'.op = "init_db" /\ resp'.runs # resp.runs) =>
        /\ columns = LegacyColumns =>
            /\ columns' = NotesColumns
            /\ DOMAIN notes' = DOMAIN notes
            /\ \A id \in DOMAIN notes :
                /\ DOMAIN notes'[id] = NotesColumns
                /\ \A c \in LegacyColumns : notes'[id][c] = notes[id][c]
                /\ notes'[id].category = s_general
                /\ notes'[id].status = s_todo
                /\ notes'[id].priority = s_medium
                /\ notes'[id].due_date = None
                /\ notes'[id].is_pinned = 0
                /\ notes'[id].is_archived = 0
                /\ notes'[id].is_deleted = 0
        /\ resp.op = "init_db" => (notes' = notes /\ columns' = columns)]_vars

\* The schema manager has run twice on a legacy file that held two rows, one of
\* them last updated before the run.
C18_Witness ==
    /\ resp.op = "init_db" /\ resp.runs = 2
    /\ hist.columns = LegacyColumns
    /\ Cardinality(DOMAIN hist.rows) = 2
    /\ DOMAIN notes = DOMAIN hist.rows
    /\ \E id \in DOMAIN notes : notes[id].updated_at < clock

\* C11: an update of a stored note that is not in the trash, with a form whose
\* trimmed title is blank, whose trimmed status or priority is outside its set
\* or whose trimmed due date does not parse, is answered 400 with the error of
\* the first offending field, and no field of any stored note changes, is_pinned
\* and updated_at included.
C11_InvalidUpdateChangesNothing ==
    [][(/\ resp'.op = "update_note"
        /\ resp'.id \in DOMAIN notes
        /\ notes[resp'.id].is_deleted = 0
        /\ OffendingTrimmed(resp'.form) # None)
       => /\ resp'.status = 400
          /\ resp'.error = OffendingTrimmed(resp'.form)
          /\ notes' = notes]_vars

\* An update with an unparseable due date and no pin token was refused on a
\* pinned note that was last written before the current second.
C11_Witness ==
    /\ resp.op = "update_note" /\ resp.status = 400 /\ resp.error = ErrDueDate
    /\ "is_pinned" \notin DOMAIN resp.form
    /\ resp.id \in DOMAIN notes
    /\ notes[resp.id].is_pinned = 1
    /\ notes[resp.id].updated_at < clock

\* The ids a listing response carries, in the order it carries them.
ResponseIds == [k \in 1..Len(resp.payload.notes) |-> resp.payload.notes[k].id]

\* The view clause, as the claim words it.
InView(view, row) ==
    CASE view = s_trash -> row.is_deleted = 1
      [] view = s_archived -> row.is_deleted # 1 /\ row.is_archived = 1
      [] view = s_active -> row.is_deleted # 1 /\ row.is_archived # 1

\* The stored notes that pass the view and the three equality filters.
Passing(filters) ==
    { id \in DOMAIN notes :
        /\ InView(filters.view, notes[id])
        /\ filters.status = s_all \/ notes[id].status = filters.status
        /\ filters.priority = s_all \/ notes[id].priority = filters.priority
        /\ filters.category = s_all \/ notes[id].category = filters.category }

\* C12: a listing returns each note once and only notes that satisfy the view
\* clause and every status, priority and category filter that is not "all";
\* when the text query is empty it returns every such note.
C12_ListingIsExact ==
    resp.op = "list_notes_api" =>
        LET listed == {ResponseIds[k] : k \in DOMAIN ResponseIds}
        IN  /\ Cardinality(listed) = Len(ResponseIds)
            /\ listed \subseteq Passing(resp.payload.filters)
            /\ resp.payload.filters.q = <<>> => listed = Passing(resp.payload.filters)

\* A listing filtered by status and category returned one of three stored notes:
\* one of the others is of another view, the other fails a filter.
C12_Witness ==
    /\ resp.op = "list_notes_api"
    /\ resp.payload.filters.status = s_in_progress
    /\ resp.payload.filters.category = g_work
    /\ resp.payload.filters.view = s_active
    /\ Len(ResponseIds) = 1
    /\ Cardinality(DOMAIN notes) = 3
    /\ \E id \in DOMAIN notes : notes[id].is_deleted = 1
    /\ \E id \in DOMAIN notes :
            InView(s_active, notes[id]) /\ notes[id].category = g_Work

\* text contains q as a literal substring, ignoring the case of ASCII letters.
Contains(text, q) ==
    \E i \in 1..(Len(text) - Len(q) + 1) :
        \A j \in 1..Len(q) : Lower(text[i + j - 1]) = Lower(q[j])

\* C13 as stated: a listing with a text query returns only notes whose title,
\* content or category contains the query as a literal substring, also when the
\* query contains % or _.
C13_AsStated ==
    (resp.op = "list_notes_api" /\ resp.payload.filters.q # <<>>) =>
        \A k \in DOMAIN ResponseIds :
            LET row == notes[ResponseIds[k]]
            IN  \/ Contains(row.title, resp.payload.filters.q)
                \/ Contains(row.content, resp.payload.filters.q)
                \/ Contains(row.category, resp.payload.filters.q)

\* The day a due date names, as a number that grows with the calendar.
DayNumber(due_date) ==
    LET parsed == fromisoformat(due_date)
    IN  (parsed.year * 12 + parsed.month) * 31 + parsed.day

\* The sort key of a row: smaller keys are listed first.
SortKey(row) ==
    << IF row.is_pinned = 1 THEN 0 ELSE 1,
       CASE row.priority = s_high -> 0 [] row.priority = s_medium -> 1 [] row.priority = s_low -> 2,
       IF row.due_date = None THEN 1 ELSE 0,
       IF row.due_date = None THEN 0 ELSE DayNumber(row.due_date),
       0 - row.updated_at,
       0 - row.id >>

RECURSIVE LexLess(_, _)
LexLess(a, b) ==
    /\ a # <<>>
    /\ \/ Head(a) < Head(b)
       \/ Head(a) = Head(b) /\ LexLess(Tail(a), Tail(b))

\* C14: in every listing, each note precedes the notes after it in the order
\* pinned first, then priority high, medium, low, then notes with a due date,
\* then earlier due date, then later updated_at, then larger id; the order is
\* strict, so a pinned low-priority note precedes every unpinned high-priority
\* note and a store has one listing per filter record.
C14_ListingIsSorted ==
    resp.op = "list_notes_api" =>
        \A k \in DOMAIN ResponseIds : \A l \in DOMAIN ResponseIds :
            k < l =>
                /\ LexLess(SortKey(notes[ResponseIds[k]]), SortKey(notes[ResponseIds[l]]))
                /\ ~ (/\ notes[ResponseIds[l]].is_pinned = 1
                      /\ notes[ResponseIds[l]].priority = s_low
                      /\ notes[ResponseIds[k]].is_pinned = 0
                      /\ notes[ResponseIds[k]].priority = s_high)

\* A listing of three notes put a pinned low-priority note first, then two
\* unpinned high-priority notes that differ only in their due dates.
C14_Witness ==
    /\ resp.op = "list_notes_api"
    /\ Len(ResponseIds) = 3
    /\ notes[ResponseIds[1]].is_pinned = 1 /\ notes[ResponseIds[1]].priority = s_low
    /\ notes[ResponseIds[2]].is_pinned = 0 /\ notes[ResponseIds[2]].priority = s_high
    /\ notes[ResponseIds[3]].is_pinned = 0 /\ notes[ResponseIds[3]].priority = s_high
    /\ notes[ResponseIds[2]].due_date = d_2024_02_29
    /\ notes[ResponseIds[3]].due_date = d_2026_03_05
    /\ ResponseIds[2] < ResponseIds[3]

FilterKeys == {"q", "status", "priority", "category", "view"}

\* C15: normalising the record that load_filters produced yields the same record.
C15_LoadFiltersIsIdempotent ==
    (resp.op = "load_filters" /\ hist.op = "load_filters") =>
        /\ resp.args = hist.filters
        /\ resp.filters = hist.filters

\* A query string with a padded status, a blank category, an unknown view and no
\* priority was normalised, and its record was normalised again.
C15_Witness ==
    /\ resp.op = "load_filters" /\ hist.op = "load_filters"
    /\ DOMAIN hist.args = {"status", "category", "view"}
    /\ hist.args.status # s_done /\ hist.filters.status = s_done
    /\ hist.args.category # <<>> /\ hist.filters.category = s_all
    /\ hist.filters.view = s_active
    /\ resp.args = hist.filters

\* The record is canonical.
Canonical(filters) ==
    /\ DOMAIN filters = FilterKeys
    /\ filters.status \in {s_all, s_todo, s_in_progress, s_done}
    /\ filters.priority \in {s_all, s_low, s_medium, s_high}
    /\ filters.view \in {s_active, s_archived, s_trash}
    /\ strip(filters.category) # <<>>

\* C16 as stated: the record is canonical; a status or priority that is not in
\* its set as submitted becomes "all", a view that is not in its set as
\* submitted becomes "active", and a blank category becomes "all".
C16_AsStated ==
    resp.op = "load_filters" =>
        /\ Canonical(resp.filters)
        /\ ("status" \in DOMAIN resp.args
                /\ resp.args.status \notin {s_all, s_todo, s_in_progress, s_done})
            => resp.filters.status = s_all
        /\ ("priority" \in DOMAIN resp.args
                /\ resp.args.priority \notin {s_all, s_low, s_medium, s_high})
            => resp.filters.priority = s_all
        /\ ("view" \in DOMAIN resp.args /\ resp.args.view \notin {s_active, s_archived, s_trash})
            => resp.filters.view = s_active
        /\ ("category" \in DOMAIN resp.args /\ strip(resp.args.category) = <<>>)
            => resp.filters.category = s_all

\* C16: every query string yields a canonical record; a status or priority that
\* after trimming is not in its set becomes "all" and one that is in its set is
\* kept trimmed, a view that after trimming is not in its set becomes "active",
\* a blank category becomes "all", and a missing key gets its default.
C16_LoadFiltersIsCanonical ==
    resp.op = "load_filters" =>
        LET given(key, default) ==
                IF key \in DOMAIN resp.args THEN strip(resp.args[key]) ELSE default
        IN  /\ Canonical(resp.filters)
            /\ resp.filters.status =
                 IF given("status", s_all) \in {s_all, s_todo, s_in_progress, s_done}
                 THEN given("status", s_all) ELSE s_all
            /\ resp.filters.priority =
                 IF given("priority", s_all) \in {s_all, s_low, s_medium, s_high}
                 THEN given("priority", s_all) ELSE s_all
            /\ resp.filters.view =
                 IF given("view", s_active) \in {s_active, s_archived, s_trash}
                 THEN given("view", s_active) ELSE s_active
            /\ given("category", s_all) = <<>> => resp.filters.category = s_all

\* A query string with an unknown status, a padded known priority, an unknown
\* view and a blank category was normalised.
C16_Witness ==
    /\ resp.op = "load_filters" /\ hist.op = "none"
    /\ DOMAIN resp.args = {"status", "priority", "category", "view"}
    /\ resp.args.status = st_Done /\ resp.filters.status = s_all
    /\ resp.args.priority # s_high /\ resp.filters.priority = s_high
    /\ strip(resp.args.view) = <<"b", "i", "n">> /\ resp.filters.view = s_active
    /\ resp.args.category # <<>> /\ resp.filters.category = s_all

\* The target the claim names for a submitted form.
ClaimedTarget(form) ==
    IF /\ "next" \in DOMAIN form
       /\ Len(form.next) > 0
       /\ form.next[1] = "/"
       /\ ~ (Len(form.next) > 1 /\ form.next[2] = "/")
    THEN form.next
    ELSE <<"/">>

\* C17 as stated: after every write the redirect target is the submitted next
\* value when it is non-empty, starts with "/" and does not start with "//",
\* and the listing page otherwise.
C17_AsStated ==
    resp.op \in {"redirect_to_next", "update_note", "create_note"} =>
        resp.location = ClaimedTarget(resp.form)

\* C17: after an update, a pin or archive toggle, a trash, a restore or a purge,
\* the redirect target is the submitted next value exactly when it is non-empty,
\* starts with "/" and does not start with "//", and the listing page otherwise;
\* after a create it is the listing page.
C17_RedirectTargetIsLocal ==
    /\ resp.op \in {"redirect_to_next", "update_note"} =>
            resp.location = ClaimedTarget(resp.form)
    /\ resp.op = "create_note" => resp.location = <<"/">>

\* A toggle, trash, restore or purge whose next value starts with "//" was
\* answered with a redirect to the listing page.
C17_Witness ==
    /\ resp.op = "redirect_to_next"
    /\ "next" \in DOMAIN resp.form
    /\ Len(resp.form.next) = 3
    /\ resp.form.next[1] = "/" /\ resp.form.next[2] = "/" /\ resp.form.next[3] = "a"
    /\ resp.location = <<"/">>

\* C19 as stated: with the handlers' reads and writes interleaving, no stored
\* note is in the trash and pinned or archived.
C19_AsStated ==
    \A id \in DOMAIN notes :
        ~ (notes[id].is_deleted = 1 /\ (notes[id].is_pinned = 1 \/ notes[id].is_archived = 1))

\* C20 as stated: when two pin toggles, or two archive toggles, of the same note
\* have both been answered with the redirect, the flag has the value that the
\* first of them to read the note found.
C20_AsStated ==
    \A first \in RequestIds : \A second \in RequestIds :
        (/\ pending[first] # Idle /\ pending[second] # Idle
         /\ pending[first].pc = "answered" /\ pending[second].pc = "answered"
         /\ pending[first].status = 302 /\ pending[second].status = 302
         /\ pending[first].op = pending[second].op
         /\ pending[first].id = pending[second].id
         /\ pending[first].order < pending[second].order
         /\ pending[first].id \in DOMAIN notes)
        => /\ pending[first].op = "toggle_pin" =>
                notes[pending[first].id].is_pinned = pending[first].note.is_pinned
           /\ pending[first].op = "toggle_archive" =>
                notes[pending[first].id].is_archived = pending[first].note.is_archived

\* C21: an update that succeeds leaves the note with the title, content, status
\* and priority of the form, trimmed, with the form's trimmed category or
\* "general" when that is blank, with the form's due date written as YYYY-MM-DD
\* or absent when blank, and pinned exactly when the form's pin token is on, 1 or
\* true; the note's id, is_archived, is_deleted and created_at are as before.
C21_UpdateOverwritesFields ==
    [][(resp'.op = "update_note" /\ resp'.status = 302) =>
        LET id == resp'.id
            form == resp'.form
            category == strip(FormGet(form, "category", s_general))
        IN  /\ id \in DOMAIN notes /\ id \in DOMAIN notes'
            /\ notes'[id].title = strip(FormGet(form, "title", <<>>))
            /\ notes'[id].content = strip(FormGet(form, "content", <<>>))
            /\ notes'[id].category = IF category = <<>> THEN s_general ELSE category
            /\ notes'[id].status = strip(FormGet(form, "status", s_todo))
            /\ notes'[id].priority = strip(FormGet(form, "priority", s_medium))
            /\ notes'[id].due_date = DueDateIso(FormGet(form, "due_date", <<>>))
            /\ notes'[id].is_pinned =
                  IF "is_pinned" \in DOMAIN form /\ form["is_pinned"] \in {s_on, s_1, s_true}
                  THEN 1 ELSE 0
            /\ notes'[id].id = notes[id].id
            /\ notes'[id].is_archived = notes[id].is_archived
            /\ notes'[id].is_deleted = notes[id].is_deleted
            /\ notes'[id].created_at = notes[id].created_at]_vars

\* A form without a pin token has updated a pinned, archived note created in an
\* earlier second: the note is no longer pinned and is still archived.
C21_Witness ==
    /\ resp.op = "update_note" /\ resp.status = 302
    /\ "is_pinned" \notin DOMAIN resp.form
    /\ resp.note.is_pinned = 1 /\ resp.note.is_archived = 1
    /\ notes[resp.id].is_pinned = 0 /\ notes[resp.id].is_archived = 1
    /\ notes[resp.id].created_at < notes[resp.id].updated_at

\* The flag each toggle is about.
ToggledFlag == [toggle_pin |-> "is_pinned", toggle_archive |-> "is_archived"]

\* C22: a toggle_pin or toggle_archive of a stored note that is not in the trash
\* succeeds, negates its flag and leaves every other field of the note but
\* updated_at as it was; when the request before it was the same toggle of the
\* same note, the flag is back at the value that request found.
C22_ToggleFlipsOneFlag ==
    [][(/\ resp'.op \in DOMAIN ToggledFlag
        /\ resp'.id \in DOMAIN notes
        /\ notes[resp'.id].is_deleted = 0) =>
        LET id == resp'.id
            flag == ToggledFlag[resp'.op]
        IN  /\ resp'.status = 302
            /\ id \in DOMAIN notes'
            /\ notes[id][flag] \in {0, 1}
            /\ notes'[id][flag] = 1 - notes[id][flag]
            /\ \A c \in DOMAIN notes[id] \ {flag, "updated_at"} : notes'[id][c] = notes[id][c]
            /\ (resp.op = resp'.op /\ resp.id = id /\ resp.status = 302) =>
                    notes'[id][flag] = resp.note[flag]]_vars

\* A pinned note that was not archived has been archived and unarchived by two
\* requests in a row and is still pinned.
C22_Witness ==
    /\ hist.op = "toggle_archive" /\ hist.status = 302
    /\ hist.note.is_archived = 0 /\ hist.note.is_pinned = 1
    /\ resp.op = "toggle_archive" /\ resp.status = 302 /\ resp.id = hist.id
    /\ resp.note.is_archived = 1
    /\ notes[resp.id].is_archived = 0 /\ notes[resp.id].is_pinned = 1

\* C23: a restore of a stored note that is not in the trash is answered with the
\* redirect and writes nothing: the store is as it was, so an archived note is
\* still archived and no updated_at has moved.
C23_RestoreOfLiveNoteIsNoop ==
    [][(/\ resp'.op = "restore_note"
        /\ resp'.id \in DOMAIN notes
        /\ notes[resp'.id].is_deleted = 0)
       => /\ resp'.status = 302
          /\ notes' = notes
          /\ seq' = seq /\ purged' = purged]_vars

\* A restore was answered with the redirect on a pinned, archived note last
\* written in an earlier second; the archived view still lists the note.
C23_Witness ==
    /\ resp.op = "restore_note" /\ resp.status = 302
    /\ FetchedLive /\ resp.note.is_archived = 1 /\ resp.note.is_pinned = 1
    /\ notes[resp.id].is_archived = 1 /\ notes[resp.id].is_pinned = 1
    /\ notes[resp.id].updated_at < clock
    /\ resp.id \in UnfilteredIds(s_archived)

\* The request just answered wrote the note it names: an update, a toggle or a
\* trash that succeeded, or a restore of a note that was in the trash.
Mutated ==
    /\ clock' = clock
    /\ resp'.status = 302
    /\ resp'.id \in DOMAIN notes
    /\ \/ resp'.op \in {"update_note", "toggle_pin", "toggle_archive", "move_to_trash"}
       \/ resp'.op = "restore_note" /\ notes[resp'.id].is_deleted = 1

RowsAdded ==
    IF resp'.op = "create_note" /\ resp'.status = 302 THEN 1
    ELSE IF resp'.op = "purge_note" /\ resp'.status = 302 THEN -1
    ELSE 0

\* C25: an update, toggle, trash, restore or purge leaves every stored note but
\* the one it names as it was and adds none; a create leaves every stored note
\* as it was; the number of stored notes grows by one with a create that
\* succeeds, shrinks by one with a purge that succeeds and is otherwise the same.
C25_WritesTouchOneNote ==
    [][/\ resp'.op \in WritesOnNotes =>
            /\ DOMAIN notes' \subseteq DOMAIN notes
            /\ \A other \in DOMAIN notes \ {resp'.id} :
                    other \in DOMAIN notes' /\ notes'[other] = notes[other]
       /\ resp'.op = "create_note" =>
            \A other \in DOMAIN notes :
                    other \in DOMAIN notes' /\ notes'[other] = notes[other]
       /\ Cardinality(DOMAIN notes') = Cardinality(DOMAIN notes) + RowsAdded]_vars

\* An update has rewritten one of two stored notes; the other, pinned and
\* archived, holds other text.
C25_Witness ==
    /\ resp.op = "update_note" /\ resp.status = 302
    /\ Cardinality(DOMAIN notes) = 2
    /\ \E other \in DOMAIN notes \ {resp.id} :
            /\ notes[other].is_pinned = 1 /\ notes[other].is_archived = 1
            /\ notes[other].title # notes[resp.id].title
            /\ notes[other].status # notes[resp.id].status

\* The default the schema manager is said to give a column.
SchemaDefault ==
    [category |-> s_general, status |-> s_todo, priority |-> s_medium,
     is_pinned |-> 0, is_archived |-> 0, is_deleted |-> 0]

\* The value is one the column allows.
InRange(column, value) ==
    CASE column = "status" -> value \in STATUSES
      [] column = "priority" -> value \in PRIORITIES
      [] column = "category" -> value # None /\ strip(value) # <<>>
      [] OTHER -> value \in {0, 1}

\* C26 as stated: once the schema manager has run, every row has a status and a
\* priority of their sets, a category that is not blank and flags that are 0 or
\* 1, and is listed by exactly one view; a column whose value was in range when
\* the file was found has kept it, any other holds its default.
C26_AsStated ==
    resp.op = "init_db" =>
        \A id \in DOMAIN notes :
            /\ \A column \in DOMAIN SchemaDefault :
                /\ InRange(column, notes[id][column])
                /\ column \in DOMAIN hist.rows[id] =>
                      notes[id][column] =
                          IF InRange(column, hist.rows[id][column])
                          THEN hist.rows[id][column] ELSE SchemaDefault[column]
            /\ Cardinality({view \in VIEWS : id \in UnfilteredIds(view)}) = 1

\* C27 as stated: a listing whose category filter is the category of a stored
\* note returns only notes of that category, whatever the category is.
C27_AsStated ==
    (/\ resp.op = "list_notes_api"
     /\ "category" \in DOMAIN resp.args
     /\ \E id \in DOMAIN notes : notes[id].category = resp.args.category) =>
        \A k \in DOMAIN ResponseIds : notes[ResponseIds[k]].category = resp.args.category

====
